---------------------------- MODULE Spec2Model ----------------------------
(***************************************************************************)
(* A model of the adapters of the `time` crate: the serde Unix-timestamp   *)
(* adapter (src/serde/timestamp.rs), the literal macros                    *)
(* (time-macros/src/lib.rs) and the quickcheck generators and shrinkers    *)
(* (src/quickcheck.rs).                                                    *)
(*                                                                         *)
(* Every operation is a pure function of its arguments, so each action of  *)
(* the model is one call: it draws the arguments, records the operation in *)
(* `op` and stores the value returned.  A behaviour is one use of the      *)
(* library: a call of an adapter, a macro or a generator from the initial  *)
(* state, and then, for a generated or given value, a chain of shrinks,    *)
(* each applied to the value the one before returned.  An action leaves    *)
(* the variables of the other adapters at their idle values.               *)
(*                                                                         *)
(* TLC's integers are 32 bits wide.  A signed 64-bit Unix timestamp is     *)
(* therefore kept as the pair (days, secs) with 0 <= secs < 86400 that     *)
(* denotes days * 86400 + secs, and compared lexicographically.            *)
(***************************************************************************)
EXTENDS Integers, Sequences, FiniteSets, TLC

VARIABLES
    op,         \* the operation that produced the present state
    datetime,   \* serde: the OffsetDateTime serialized, or the one decoded
    wire,       \* serde: the value on the wire
    result,     \* serde: what deserialize returned
    macroIn,    \* macros: the macro invocation expanded
    macroOut,   \* macros: the token stream returned
    date,       \* quickcheck: the Date generated or shrunk to
    duration,   \* quickcheck: the Duration generated or shrunk to
    offset,     \* quickcheck: the UtcOffset generated or shrunk to
    weekday,    \* quickcheck: the Weekday generated or shrunk to
    between,    \* quickcheck: a call of arbitrary_between and what it returned
    normalized, \* Duration: the arguments of Duration::new and what it returned
    added,      \* Duration: the operands a and b, and what a.checked_add(b) and
                \* a + b returned
    converted,  \* Duration: a Duration, the platform duration it converts to,
                \* and the Duration that converts back to
    assumed,    \* quickcheck: the date-time and the offset OffsetDateTime::arbitrary
                \* generated, and the OffsetDateTime it returned
    visited     \* quickcheck: the values the present chain of shrinks started
                \* from and passed through, the latest last

vars == <<op, datetime, wire, result, macroIn, macroOut,
          date, duration, offset, weekday, between, assumed,
          normalized, added, converted, visited>>

----------------------------------------------------------------------------
(* Bounds of the model.                                                    *)

\* The supported years are -YearBound .. YearBound (the crate's MIN_YEAR and
\* MAX_YEAR, scaled down so that day counts stay within TLC's integers).
YearBound == 2030

\* The width, in bits, the model gives the signed 64-bit seconds of a Duration.
SecondsBits == 4

----------------------------------------------------------------------------
(* Integer arithmetic as Rust defines it.                                  *)

Abs(x) == IF x < 0 THEN -x ELSE x

\* a % b of Rust for b > 0: the remainder has the sign of the dividend.
Rem(a, b) ==
    LET m == a % b
    IN  IF a < 0 /\ m # 0 THEN m - b ELSE m

\* a / b of Rust for b > 0: the quotient is truncated towards zero.
TruncDiv(a, b) == IF a >= 0 THEN a \div b ELSE -((-a) \div b)

RECURSIVE Pow2(_)
Pow2(n) == IF n = 0 THEN 1 ELSE 2 * Pow2(n - 1)

Range(s) == {s[i] : i \in DOMAIN s}

----------------------------------------------------------------------------
(* CalendarMath and Date (crate code outside src/: modelled from the spec, *)
(* sections 3, 4.1 and 4.2).                                               *)

MIN_YEAR == -YearBound
MAX_YEAR == YearBound

is_leap_year(year) ==
    (year % 4 = 0) /\ ((year % 100 # 0) \/ (year % 400 = 0))

days_in_year(year) == IF is_leap_year(year) THEN 366 ELSE 365

\* Date::from_ordinal_date_unchecked: no validation.
from_ordinal_date_unchecked(year, ordinal) ==
    [year |-> year, ordinal |-> ordinal]

\* Date::from_ordinal_date: <<d>> for Ok(d) and <<>> for Err(_), which is how
\* flat_map iterates a Result.
from_ordinal_date(year, ordinal) ==
    IF /\ MIN_YEAR <= year /\ year <= MAX_YEAR
       /\ 1 <= ordinal /\ ordinal <= days_in_year(year)
    THEN <<from_ordinal_date_unchecked(year, ordinal)>>
    ELSE <<>>

to_ordinal_date(d) == <<d.year, d.ordinal>>

\* The days of the proleptic Gregorian calendar before 1 January of `year`,
\* counted from 1 January of year 1.
DaysBeforeYear(year) ==
    LET p == year - 1
    IN  365 * p + (p \div 4) - (p \div 100) + (p \div 400)

UNIX_EPOCH_YEAR == 1970
SECONDS_PER_DAY == 86400

\* Days from 1970-01-01 to the date.
DaysSinceEpoch(d) ==
    DaysBeforeYear(d.year) + (d.ordinal - 1) - DaysBeforeYear(UNIX_EPOCH_YEAR)

\* The date that lies `days` days after 1970-01-01, for a day within the
\* supported years or at most a year outside them.
DateOfEpochDay(days) ==
    LET n    == days + DaysBeforeYear(UNIX_EPOCH_YEAR)
        y0   == ((n * 400) \div 146097) + 1
        year == CHOOSE y \in (y0 - 1) .. (y0 + 1) :
                    DaysBeforeYear(y) <= n /\ n < DaysBeforeYear(y + 1)
    IN  from_ordinal_date_unchecked(year, n - DaysBeforeYear(year) + 1)

----------------------------------------------------------------------------
(* Signed 64-bit timestamps as (days, secs).                               *)

I64(days, secs) == [days |-> days, secs |-> secs]

\* The i64 whose value is n, for an n TLC can hold.
I64Of(n) == I64(n \div SECONDS_PER_DAY, n % SECONDS_PER_DAY)

I64Less(a, b) == a.days < b.days \/ (a.days = b.days /\ a.secs < b.secs)

I64AddSeconds(a, s) ==
    LET t == a.secs + s
    IN  I64(a.days + (t \div SECONDS_PER_DAY), t % SECONDS_PER_DAY)

----------------------------------------------------------------------------
(* Time, UtcOffset, PrimitiveDateTime, OffsetDateTime (crate code outside  *)
(* src/: modelled from the spec, sections 3, 4.5 and 4.6).                 *)

Time(h, m, s, n) == [hour |-> h, minute |-> m, second |-> s, nanosecond |-> n]

UtcOffset(h, m, s) == [hours |-> h, minutes |-> m, seconds |-> s]

UTC == UtcOffset(0, 0, 0)

as_hms(o) == <<o.hours, o.minutes, o.seconds>>

OffsetSeconds(o) == o.hours * 3600 + o.minutes * 60 + o.seconds

PrimitiveDateTime(d, t) == [date |-> d, time |-> t]

SecondOfDay(t) == t.hour * 3600 + t.minute * 60 + t.second

\* OffsetDateTime: the instant in UTC and the offset it is displayed in.
OffsetDateTime(utc, o) == [utc_datetime |-> utc, offset |-> o]

assume_utc(p) == OffsetDateTime(p, UTC)

\* PrimitiveDateTime::assume_offset: the date and time taken as displayed in
\* the offset, so the instant in UTC is the date and time minus the offset.
assume_offset(p, o) ==
    LET local == I64(DaysSinceEpoch(p.date), SecondOfDay(p.time))
        utc   == I64AddSeconds(local, -OffsetSeconds(o))
    IN  OffsetDateTime(
            PrimitiveDateTime(DateOfEpochDay(utc.days),
                              Time(utc.secs \div 3600,
                                   (utc.secs % 3600) \div 60,
                                   utc.secs % 60,
                                   p.time.nanosecond)),
            o)

\* OffsetDateTime::to_offset: the same instant displayed in another offset.
to_offset(dt, o) == OffsetDateTime(dt.utc_datetime, o)

\* OffsetDateTime::unix_timestamp: whole seconds from the Unix epoch to the
\* instant, read from the UTC date and time.
unix_timestamp(dt) ==
    I64(DaysSinceEpoch(dt.utc_datetime.date), SecondOfDay(dt.utc_datetime.time))

\* The whole seconds from the Unix epoch to the date and time the value
\* displays, i.e. in its own offset.
LocalTimestamp(dt) == I64AddSeconds(unix_timestamp(dt), OffsetSeconds(dt.offset))

MIN_TIMESTAMP == I64(DaysBeforeYear(MIN_YEAR) - DaysBeforeYear(UNIX_EPOCH_YEAR), 0)

MAX_TIMESTAMP ==
    I64(DaysBeforeYear(MAX_YEAR + 1) - 1 - DaysBeforeYear(UNIX_EPOCH_YEAR),
        SECONDS_PER_DAY - 1)

\* Result<T, E>: Ok(v) or Err(e).  An error of the adapters is the sequence of
\* the messages it carries, the outermost first.
Ok(v) == [tag |-> "Ok", value |-> v, error |-> <<>>]
Err(e) == [tag |-> "Err", value |-> <<>>, error |-> e]

\* OffsetDateTime::from_unix_timestamp: the instant in UTC, or a
\* ComponentRange error for an instant outside the supported years.
from_unix_timestamp(timestamp) ==
    IF I64Less(timestamp, MIN_TIMESTAMP) \/ I64Less(MAX_TIMESTAMP, timestamp)
    THEN Err(<<"ComponentRange">>)
    ELSE Ok(assume_utc(PrimitiveDateTime(
                DateOfEpochDay(timestamp.days),
                Time(timestamp.secs \div 3600,
                     (timestamp.secs % 3600) \div 60,
                     timestamp.secs % 60,
                     0))))

----------------------------------------------------------------------------
(* serde and the wire format.  A wire value is what a self-describing      *)
(* format such as JSON holds in the field: a signed 64-bit integer, null,  *)
(* or a value of another type (a string).                                  *)

\* Option<T>: Some(v) or None.
Some(v) == <<v>>
None == <<>>

WireI64(n) == [kind |-> "i64", int |-> n]
WireNull == [kind |-> "null", int |-> I64(0, 0)]
WireString == [kind |-> "string", int |-> I64(0, 0)]
WireIdle == [kind |-> "idle", int |-> I64(0, 0)]

\* Serializer::serialize_i64, reached through the transparent Wrapper(i64).
serialize_i64(n) == WireI64(n)

\* <i64 as Deserialize>::deserialize, reached through the transparent
\* Wrapper(i64): the integer, or the format's invalid-type error.
deserialize_i64(w) ==
    IF w.kind = "i64" THEN Ok(w.int) ELSE Err(<<"invalid type">>)

\* <D::Error as serde::de::Error>::custom: the deserializer's own error,
\* carrying the message of e.
custom(e) == <<"custom">> \o e

\* A serialize that writes the seconds of the displayed date and time.
serialize_local(dt) == serialize_i64(LocalTimestamp(dt))

\* timestamp::serialize
serialize(dt) == serialize_i64(unix_timestamp(dt))

\* A deserialize that decodes the integer as unsigned.
deserialize_unsigned(w) ==
    LET wrapper == IF w.kind = "i64" /\ w.int.days < 0
                   THEN Err(<<"invalid value">>) ELSE deserialize_i64(w)
    IN  IF wrapper.tag = "Err"
        THEN wrapper
        ELSE LET r == from_unix_timestamp(wrapper.value)
             IN  IF r.tag = "Err" THEN Err(custom(r.error)) ELSE r

\* A deserialize that reads an integer outside the supported years as the
\* Unix epoch.
deserialize_or_epoch(w) ==
    LET wrapper == deserialize_i64(w)
    IN  IF wrapper.tag = "Err"
        THEN wrapper
        ELSE LET r == from_unix_timestamp(wrapper.value)
             IN  IF r.tag = "Err" THEN from_unix_timestamp(I64(0, 0)) ELSE r

\* timestamp::deserialize
deserialize(w) ==
    LET wrapper == deserialize_i64(w)
    IN  IF wrapper.tag = "Err"
        THEN wrapper
        ELSE LET r == from_unix_timestamp(wrapper.value)
             IN  IF r.tag = "Err" THEN Err(custom(r.error)) ELSE r

\* timestamp::option::serialize: Option<Wrapper> serializes None as null and
\* Some(Wrapper(dt)) with the plain adapter.
option_serialize(option) ==
    IF option = None THEN WireNull ELSE serialize(option[1])

\* An option::deserialize that reads what the plain adapter rejects as None.
option_deserialize_lenient(w) ==
    IF w.kind = "null"
    THEN Ok(None)
    ELSE LET r == deserialize(w)
         IN  IF r.tag = "Err" THEN Ok(None) ELSE Ok(Some(r.value))

\* timestamp::option::deserialize: Option<Wrapper> reads null as None and
\* anything else with the plain adapter.
option_deserialize(w) ==
    IF w.kind = "null"
    THEN Ok(None)
    ELSE LET r == deserialize(w)
         IN  IF r.tag = "Err" THEN r ELSE Ok(Some(r.value))

----------------------------------------------------------------------------
(* The values the serde actions draw from.                                 *)

SampleYears == {MIN_YEAR, -1, 0, 1969, 1970, 2019, MAX_YEAR}

SampleDates ==
    UNION {{from_ordinal_date_unchecked(y, 1),
            from_ordinal_date_unchecked(y, 60),
            from_ordinal_date_unchecked(y, days_in_year(y))} : y \in SampleYears}

SampleTimes ==
    {Time(0, 0, 0, 0), Time(1, 2, 3, 500000000), Time(23, 59, 59, 999999999)}

SampleOffsets ==
    {UTC, UtcOffset(1, 0, 0), UtcOffset(-23, -59, -59), UtcOffset(23, 59, 59)}

SampleDateTimes ==
    {OffsetDateTime(PrimitiveDateTime(d, t), o) :
        d \in SampleDates, t \in SampleTimes, o \in SampleOffsets}

FarDays == 2000000000

SampleWires ==
    {WireNull, WireString}
    \cup {serialize(assume_utc(PrimitiveDateTime(d, t))) :
            d \in SampleDates, t \in SampleTimes}
    \cup {WireI64(n) : n \in {I64Of(0), I64Of(-1), I64Of(1546300800),
                              MIN_TIMESTAMP, I64AddSeconds(MIN_TIMESTAMP, -1),
                              MAX_TIMESTAMP, I64AddSeconds(MAX_TIMESTAMP, 1),
                              I64(-FarDays, 0), I64(FarDays, SECONDS_PER_DAY - 1)}}

----------------------------------------------------------------------------
(* The literal macros (time-macros/src/lib.rs).  helpers::get_string_literal *)
(* and the parsers of Date, DateTime, Offset and Time are crate code outside *)
(* src/.  A macro invocation is modelled by what they make of it: `literal`  *)
(* is what get_string_literal returns for the input, and `grammar` is how    *)
(* the type's parser answers the string: whether it accepts, and how many    *)
(* characters it takes from the iterator.                                    *)

MacroNames == {"date", "datetime", "offset", "time"}

MaxStringLen == 2

Chars == {"a", "b"}

Strings == UNION {[1 .. n -> Chars] : n \in 0 .. MaxStringLen}

Error(variant, char) == [variant |-> variant, char |-> char]

UnexpectedCharacter(char) == Error("UnexpectedCharacter", char)

LiteralErrors == {Error("ExpectedString", ""), Error("UnexpectedToken", "")}

ParseErrors == {Error("InvalidComponent", ""), Error("MissingComponent", "")}

\* The invocations: the input either is not a string literal, or is one,
\* which the parser rejects or of which it accepts a prefix.
MacroInputs ==
    {[literal |-> Err(e), grammar |-> Err(p)] : e \in LiteralErrors, p \in ParseErrors}
    \cup UNION {{[literal |-> Ok(str), grammar |-> Err(e)] : e \in ParseErrors}
                \cup {[literal |-> Ok(str), grammar |-> Ok(n)] : n \in 0 .. Len(str)}
                : str \in Strings}

MacroInputIdle == [literal |-> Err(Error("idle", "")), grammar |-> Err(Error("idle", ""))]

\* helpers::get_string_literal
get_string_literal(input) == input.literal

\* <$type>::parse(chars): the result, and the iterator `chars` as the parser
\* leaves it.  A value is identified by its type and the text it was read from.
parse(type, string, input) ==
    IF input.grammar.tag = "Err"
    THEN [result |-> input.grammar, chars |-> string]
    ELSE [result |-> Ok([type |-> type,
                         text |-> SubSeq(string, 1, input.grammar.value)]),
          chars  |-> SubSeq(string, input.grammar.value + 1, Len(string))]

\* Error::to_compile_error
to_compile_error(err) ==
    [kind |-> "compile_error", error |-> err, value |-> [type |-> "", text |-> <<>>]]

\* ToTokens::to_external_token_stream
to_external_token_stream(value) ==
    [kind |-> "value", error |-> Error("", ""), value |-> value]

TokensIdle == [kind |-> "idle", error |-> Error("", ""), value |-> [type |-> "", text |-> <<>>]]

\* A macro that does not look for characters left after the parse.
impl_macros_no_peek(name, input) ==
    LET literal == get_string_literal(input)
    IN  IF literal.tag = "Err"
        THEN to_compile_error(literal.error)
        ELSE LET parsed == parse(name, literal.value, input)
             IN  IF parsed.result.tag = "Err"
                 THEN to_compile_error(parsed.result.error)
                 ELSE to_external_token_stream(parsed.result.value)

\* The function impl_macros! generates for `name`.
impl_macros(name, input) ==
    LET literal == get_string_literal(input)
    IN  IF literal.tag = "Err"
        THEN to_compile_error(literal.error)
        ELSE LET parsed == parse(name, literal.value, input)
             IN  IF parsed.result.tag = "Err"
                 THEN to_compile_error(parsed.result.error)
                 ELSE IF parsed.chars # <<>>
                      THEN to_compile_error(UnexpectedCharacter(Head(parsed.chars)))
                      ELSE to_external_token_stream(parsed.result.value)

----------------------------------------------------------------------------
(* quickcheck (an external crate): the shrinkers of the integers and of    *)
(* tuples that the shrinkers of src/quickcheck.rs are built from.          *)

U8_MAX == Pow2(8) - 1
I8_MIN == -Pow2(7)
I8_MAX == Pow2(7) - 1
U16_MAX == Pow2(16) - 1
I32_MAX == Pow2(30) - 1 + Pow2(30)
I32_MIN == -I32_MAX - 1

\* The model's stand-in for i64, SecondsBits wide.
SECONDS_MIN == -Pow2(SecondsBits - 1)
SECONDS_MAX == Pow2(SecondsBits - 1) - 1

RECURSIVE UnsignedTail(_, _)
UnsignedTail(x, i) ==
    IF x - i < x THEN <<x - i>> \o UnsignedTail(x, i \div 2) ELSE <<>>

\* unsigned_shrinker!: 0, then x - x/2, x - x/4, ... while below x.
unsigned_shrinker(x) ==
    IF x = 0 THEN <<>> ELSE <<0>> \o UnsignedTail(x, x \div 2)

\* SignedShrinker::next.  For x = MIN the iterator never ends: once i is 0 it
\* yields MIN again and again; the sequence lists that value once.
RECURSIVE SignedTail(_, _, _)
SignedTail(x, i, min) ==
    IF x = min
    THEN <<x - i>> \o (IF i = 0 THEN <<>> ELSE SignedTail(x, TruncDiv(i, 2), min))
    ELSE IF Abs(x - i) < Abs(x)
         THEN <<x - i>> \o SignedTail(x, TruncDiv(i, 2), min)
         ELSE <<>>

\* signed_shrinker!: 0, then |x| for a negative x (but not for -1 or MIN), then
\* x - x/2, x - x/4, ... while nearer to zero than x.
signed_shrinker(x, min) ==
    IF x = 0
    THEN <<>>
    ELSE LET i == TruncDiv(x, 2)
         IN  <<0>> \o (IF i < 0 /\ x # min THEN <<Abs(x)>> ELSE <<>>)
                   \o SignedTail(x, i, min)

\* The shrinker of a pair: the first component shrunk, then the second.
TupleShrink2(a, b, sa, sb) ==
    [i \in 1 .. Len(sa) |-> <<sa[i], b>>] \o [i \in 1 .. Len(sb) |-> <<a, sb[i]>>]

\* The shrinker of a triple: the first, then the second, then the third.
TupleShrink3(a, b, c, sa, sb, sc) ==
    [i \in 1 .. Len(sa) |-> <<sa[i], b, c>>]
    \o [i \in 1 .. Len(sb) |-> <<a, sb[i], c>>]
    \o [i \in 1 .. Len(sc) |-> <<a, b, sc[i]>>]

RECURSIVE Flatten(_)
Flatten(ss) == IF ss = <<>> THEN <<>> ELSE Head(ss) \o Flatten(Tail(ss))

----------------------------------------------------------------------------
(* src/quickcheck.rs                                                       *)

\* arbitrary_between(g, min, max), where `draw` is what T::arbitrary(g) returns.
arbitrary_between(draw, min, max) ==
    LET zero  == min - min
        range == max - min
        rem   == Rem(draw, range)
        within_range == IF rem < zero THEN rem + range ELSE rem
    IN  within_range + min

\* <Date as Arbitrary>::arbitrary
Date_arbitrary(yearDraw, ordinalDraw) ==
    LET year    == arbitrary_between(yearDraw, MIN_YEAR, MAX_YEAR)
        ordinal == arbitrary_between(ordinalDraw, 1, days_in_year(year))
    IN  from_ordinal_date_unchecked(year, ordinal)

\* The (year, ordinal) pairs the tuple shrinker yields for a date.
DateShrinkCandidates(d) ==
    LET t == to_ordinal_date(d)
    IN  TupleShrink2(t[1], t[2],
                     signed_shrinker(t[1], I32_MIN), unsigned_shrinker(t[2]))

\* A Date::shrink built on the unchecked constructor.
Date_shrink_unchecked(d) ==
    LET c == DateShrinkCandidates(d)
    IN  [i \in 1 .. Len(c) |-> from_ordinal_date_unchecked(c[i][1], c[i][2])]

\* <Date as Arbitrary>::shrink
Date_shrink(d) ==
    LET c == DateShrinkCandidates(d)
    IN  Flatten([i \in 1 .. Len(c) |-> from_ordinal_date(c[i][1], c[i][2])])

Duration(seconds, nanoseconds) == [seconds |-> seconds, nanoseconds |-> nanoseconds]

MAX_NANOSECOND == 999999999

NANOS_PER_SECOND == MAX_NANOSECOND + 1

\* An i64 result wrapped to the model's width, as two's complement wraps.
WrapSeconds(x) == ((x - SECONDS_MIN) % Pow2(SecondsBits)) + SECONDS_MIN

\* A constructor that carries whole seconds but leaves the signs as they are.
Duration_new_no_borrow(seconds, nanoseconds) ==
    Duration(WrapSeconds(seconds + TruncDiv(nanoseconds, NANOS_PER_SECOND)),
             Rem(nanoseconds, NANOS_PER_SECOND))

\* Duration::new (crate code outside src/: modelled from the spec, sections 3
\* and 4.4): the whole seconds of the nanoseconds are carried into the
\* seconds, then a second is borrowed or returned where the signs differ.
Duration_new(seconds, nanoseconds) ==
    LET s == WrapSeconds(seconds + TruncDiv(nanoseconds, NANOS_PER_SECOND))
        n == Rem(nanoseconds, NANOS_PER_SECOND)
    IN  IF s > 0 /\ n < 0
        THEN Duration(WrapSeconds(s - 1), n + NANOS_PER_SECOND)
        ELSE IF s < 0 /\ n > 0
             THEN Duration(WrapSeconds(s + 1), n - NANOS_PER_SECOND)
             ELSE Duration(s, n)

\* Duration::max_value and Duration::min_value
Duration_max_value == Duration(SECONDS_MAX, MAX_NANOSECOND)
Duration_min_value == Duration(SECONDS_MIN, -MAX_NANOSECOND)

\* i64::checked_add: no value where the sum leaves the width.
i64_checked_add(x, y) ==
    IF SECONDS_MIN <= x + y /\ x + y <= SECONDS_MAX THEN Some(x + y) ELSE None

\* An addition whose seconds wrap around where they leave the width.
Duration_wrapping_add(a, b) ==
    Some(Duration_new(WrapSeconds(a.seconds + b.seconds),
                      a.nanoseconds + b.nanoseconds))

\* Duration::checked_add (crate code outside src/: modelled from the spec,
\* sections 4.4 and 8): the fields are added, a second is carried or borrowed
\* where the nanoseconds pass a second or differ in sign from the seconds,
\* and there is no value where the seconds leave the signed 64-bit range.
Duration_checked_add(a, b) ==
    LET sum         == i64_checked_add(a.seconds, b.seconds)
        nanoseconds == a.nanoseconds + b.nanoseconds
    IN  IF sum = None
        THEN None
        ELSE LET seconds == sum[1]
             IN  IF \/ nanoseconds >= NANOS_PER_SECOND
                    \/ (seconds < 0 /\ nanoseconds > 0)
                 THEN LET carried == i64_checked_add(seconds, 1)
                      IN  IF carried = None
                          THEN None
                          ELSE Some(Duration(carried[1],
                                             nanoseconds - NANOS_PER_SECOND))
                 ELSE IF \/ nanoseconds <= -NANOS_PER_SECOND
                         \/ (seconds > 0 /\ nanoseconds < 0)
                      THEN LET borrowed == i64_checked_add(seconds, -1)
                           IN  IF borrowed = None
                               THEN None
                               ELSE Some(Duration(borrowed[1],
                                                  nanoseconds + NANOS_PER_SECOND))
                      ELSE Some(Duration(seconds, nanoseconds))

\* What an operator returns: a value, or nothing where it panics.
Returns(v) == [panic |-> FALSE, value |-> Some(v)]
Panics == [panic |-> TRUE, value |-> None]

\* <Duration as Add>::add: the checked sum, and a panic where there is none.
Duration_add(a, b) ==
    LET sum == Duration_checked_add(a, b)
    IN  IF sum = None THEN Panics ELSE Returns(sum[1])

\* The platform's unsigned duration: whole seconds (unsigned 64-bit, here
\* SecondsBits wide) and the nanoseconds 0 ..= 999_999_999 above them.
StdDuration(secs, nanos) == [secs |-> secs, nanos |-> nanos]
STD_SECONDS_MAX == Pow2(SecondsBits) - 1

\* A conversion that looks at the sign of the seconds alone.
StdDuration_try_from_seconds_only(d) ==
    IF d.seconds < 0
    THEN Err(<<"ConversionRange">>)
    ELSE Ok(StdDuration(d.seconds, Abs(d.nanoseconds)))

\* <StdDuration as TryFrom<Duration>>::try_from (crate code outside src/:
\* modelled from the spec, sections 4.4 and 8): each field converts to its
\* unsigned type, which fails for a negative one.
StdDuration_try_from(d) ==
    IF d.seconds < 0 \/ d.nanoseconds < 0
    THEN Err(<<"ConversionRange">>)
    ELSE Ok(StdDuration(d.seconds, d.nanoseconds))

\* <Duration as TryFrom<StdDuration>>::try_from: fails for seconds beyond the
\* signed range.
Duration_try_from(original) ==
    IF original.secs > SECONDS_MAX
    THEN Err(<<"ConversionRange">>)
    ELSE Ok(Duration_new(original.secs, original.nanos))

\* <Duration as Arbitrary>::arbitrary
Duration_arbitrary(secondsDraw, nanosecondsDraw, boolDraw) ==
    LET seconds     == secondsDraw
        nanoseconds == arbitrary_between(nanosecondsDraw, 0, MAX_NANOSECOND)
    IN  IF seconds < 0 \/ (seconds = 0 /\ boolDraw)
        THEN Duration(seconds, nanoseconds * (-1))
        ELSE Duration(seconds, nanoseconds)

\* A closure that leaves the sign of the nanoseconds as shrunk.
DurationNoCoerce(nanoseconds, seconds) == Duration(seconds, nanoseconds)

\* The closure of Duration::shrink: the sign of the nanoseconds coerced.
DurationCoerce(nanoseconds, seconds) ==
    IF (seconds > 0 /\ nanoseconds < 0) \/ (seconds < 0 /\ nanoseconds > 0)
    THEN Duration(seconds, nanoseconds * (-1))
    ELSE Duration(seconds, nanoseconds)

\* <Duration as Arbitrary>::shrink
Duration_shrink(d) ==
    LET c == TupleShrink2(d.nanoseconds, d.seconds,
                          signed_shrinker(d.nanoseconds, I32_MIN),
                          signed_shrinker(d.seconds, SECONDS_MIN))
    IN  [i \in 1 .. Len(c) |-> DurationCoerce(c[i][1], c[i][2])]

\* <Time as Arbitrary>::arbitrary
Time_arbitrary(hourDraw, minuteDraw, secondDraw, nanosecondDraw) ==
    Time(arbitrary_between(hourDraw, 0, 23),
         arbitrary_between(minuteDraw, 0, 59),
         arbitrary_between(secondDraw, 0, 59),
         arbitrary_between(nanosecondDraw, 0, MAX_NANOSECOND))

\* <PrimitiveDateTime as Arbitrary>::arbitrary
PrimitiveDateTime_arbitrary(dateDraws, timeDraws) ==
    PrimitiveDateTime(Date_arbitrary(dateDraws[1], dateDraws[2]),
                      Time_arbitrary(timeDraws[1], timeDraws[2],
                                     timeDraws[3], timeDraws[4]))

\* <UtcOffset as Arbitrary>::arbitrary
UtcOffset_arbitrary(hoursDraw, minutesDraw, secondsDraw, bool1, bool2) ==
    LET hours   == arbitrary_between(hoursDraw, -23, 23)
        minutes == arbitrary_between(minutesDraw, 0, 59)
        seconds == arbitrary_between(secondsDraw, 0, 59)
    IN  IF \/ hours < 0
           \/ (hours = 0 /\ bool1)
           \/ (hours = 0 /\ minutes = 0 /\ bool2)
        THEN UtcOffset(hours, minutes * (-1), seconds * (-1))
        ELSE UtcOffset(hours, minutes, seconds)

\* A closure that corrects the seconds against the hours alone.
UtcOffsetCoerceByHours(hours, mins, secs) ==
    LET minutes == IF (hours > 0 /\ mins < 0) \/ (hours < 0 /\ mins > 0)
                   THEN mins * (-1) ELSE mins
        seconds == IF (hours > 0 /\ secs < 0) \/ (hours < 0 /\ secs > 0)
                   THEN secs * (-1) ELSE secs
    IN  UtcOffset(hours, minutes, seconds)

\* The closure of UtcOffset::shrink: the signs of minutes and seconds coerced.
UtcOffsetCoerce(hours, mins, secs) ==
    LET minutes == IF (hours > 0 /\ mins < 0) \/ (hours < 0 /\ mins > 0)
                   THEN mins * (-1) ELSE mins
        seconds == IF \/ (hours > 0 /\ secs < 0)
                      \/ (hours < 0 /\ secs > 0)
                      \/ (minutes > 0 /\ secs < 0)
                      \/ (minutes < 0 /\ secs > 0)
                   THEN secs * (-1) ELSE secs
    IN  UtcOffset(hours, minutes, seconds)

\* <UtcOffset as Arbitrary>::shrink
UtcOffset_shrink(o) ==
    LET t == as_hms(o)
        c == TupleShrink3(t[1], t[2], t[3],
                          signed_shrinker(t[1], I8_MIN),
                          signed_shrinker(t[2], I8_MIN),
                          signed_shrinker(t[3], I8_MIN))
    IN  [i \in 1 .. Len(c) |-> UtcOffsetCoerce(c[i][1], c[i][2], c[i][3])]

Weekdays ==
    <<"Monday", "Tuesday", "Wednesday", "Thursday", "Friday", "Saturday", "Sunday">>

WeekdayIndex(w) == CHOOSE i \in 1 .. 7 : Weekdays[i] = w

\* Weekday::previous (crate code outside src/: the rotation of spec 4.7).
previous(w) == Weekdays[((WeekdayIndex(w) + 5) % 7) + 1]

\* <OffsetDateTime as Arbitrary>::arbitrary: the record of the date-time and
\* the offset generated and of the value returned.
OffsetDateTime_arbitrary(dateDraws, timeDraws, offsetDraws) ==
    LET datetime_ == PrimitiveDateTime_arbitrary(dateDraws, timeDraws)
        offset_   == UtcOffset_arbitrary(offsetDraws[1], offsetDraws[2],
                                         offsetDraws[3], offsetDraws[4],
                                         offsetDraws[5])
    IN  [datetime |-> datetime_, offset |-> offset_,
         result |-> assume_offset(datetime_, offset_)]

\* <Weekday as Arbitrary>::arbitrary
Weekday_arbitrary(draw) ==
    LET n == arbitrary_between(draw, 0, 6)
    IN  CASE n = 0 -> "Monday"
          [] n = 1 -> "Tuesday"
          [] n = 2 -> "Wednesday"
          [] n = 3 -> "Thursday"
          [] n = 4 -> "Friday"
          [] n = 5 -> "Saturday"
          [] OTHER -> "Sunday"

\* A Weekday::shrink without the case of Monday.
Weekday_shrink_cyclic(w) == <<previous(w)>>

\* <Weekday as Arbitrary>::shrink
Weekday_shrink(w) ==
    IF w = "Monday" THEN <<>> ELSE <<previous(w)>>

----------------------------------------------------------------------------
(* The state machine.                                                      *)

\* A chain of Date, Duration or UtcOffset shrinks is followed for at most
\* MaxShrinks steps; the properties quantify over the shrinks of its last value.
MaxShrinks == 1

\* The largest bound, in absolute value, arbitrary_between is called with on
\* its own.
MaxBetween == 3

DateTimeIdle == None
ResultIdle == [tag |-> "idle", value |-> <<>>, error |-> <<>>]
MacroIdle == [name |-> "idle", input |-> MacroInputIdle]
DateIdle == from_ordinal_date_unchecked(0, 1)
DurationIdle == Duration(0, 0)
OffsetIdle == UTC
WeekdayIdle == "Monday"
BetweenIdle == [min |-> 0, max |-> 0, value |-> 0]
NormalizedIdle == [seconds |-> 0, nanoseconds |-> 0, result |-> Duration(0, 0)]
AddedIdle ==
    [a |-> Duration(0, 0), b |-> Duration(0, 0),
     checked |-> None, sum |-> Panics]
ConvertedIdle == [duration |-> Duration(0, 0), std |-> ResultIdle, back |-> ResultIdle]
AssumedIdle ==
    [datetime |-> PrimitiveDateTime(DateIdle, Time(0, 0, 0, 0)), offset |-> UTC,
     result |-> assume_utc(PrimitiveDateTime(DateIdle, Time(0, 0, 0, 0)))]

\* The draws of the underlying generator the actions choose from.
U8Draws == 0 .. U8_MAX

I8Draws == {I8_MIN, -24, -1, 0, 23, 45, 58, I8_MAX}

U16Draws == {0, 1, 363, 364, 365, 366, 729, U16_MAX}

YearDraws ==
    {I32_MIN, -(MAX_YEAR - MIN_YEAR), -1, 0, 1, 2019 - MIN_YEAR, 2020 - MIN_YEAR,
     MAX_YEAR - MIN_YEAR - 1, MAX_YEAR - MIN_YEAR, I32_MAX}

NanosecondDraws ==
    {I32_MIN, -MAX_NANOSECOND, -1, 0, 1, MAX_NANOSECOND - 1, MAX_NANOSECOND, I32_MAX}

SecondsDraws == SECONDS_MIN .. SECONDS_MAX
\* Draws for OffsetDateTime::arbitrary that reach the ends of what its
\* generators return: the years MIN_YEAR, MIN_YEAR + 1, 2019 and MAX_YEAR - 1,
\* the first day of a year and the last day but one, hours, minutes and seconds
\* next to both ends, and the offset hours -23, 0 and 22.
EdgeYearDraws == {0, 1, 2019 - MIN_YEAR, MAX_YEAR - MIN_YEAR - 1}
EdgeOrdinalDraws == {0, 363}
EdgeHourDraws == {0, 22}
EdgeU8Draws == {0, 58}
EdgeNanosecondDraws == {0, MAX_NANOSECOND - 1}
EdgeOffsetHourDraws == {0, 23, 45}
\* Nanosecond arguments of Duration::new: within a second, and one and two
\* seconds and more beyond it, in both directions.
NewNanosecondDraws ==
    {-I32_MAX, -2 * NANOS_PER_SECOND, -NANOS_PER_SECOND - 400000000,
     -NANOS_PER_SECOND, -MAX_NANOSECOND, -1, 0, 1, MAX_NANOSECOND,
     NANOS_PER_SECOND, NANOS_PER_SECOND + 400000000, 2 * NANOS_PER_SECOND,
     I32_MAX}
\* The operands of an addition: sign-consistent durations whose seconds are
\* at and next to the ends of the width and around zero.
EdgeSeconds ==
    {SECONDS_MIN, SECONDS_MIN + 1, -1, 0, 1, SECONDS_MAX - 1, SECONDS_MAX}
AddOperands ==
    {d \in {Duration(sec, nano) :
                sec \in EdgeSeconds,
                nano \in {-MAX_NANOSECOND, -500000000, -1, 0, 1, 500000000,
                          MAX_NANOSECOND}} :
        ~ \/ (d.seconds > 0 /\ d.nanoseconds < 0)
          \/ (d.seconds < 0 /\ d.nanoseconds > 0)}
\* Platform durations: every seconds value of the width.
GivenStdDurations ==
    {StdDuration(secs, nanos) :
        secs \in 0 .. STD_SECONDS_MAX, nanos \in {0, 1, MAX_NANOSECOND}}
\* Every value i8::arbitrary can return.
I8All == I8_MIN .. I8_MAX
\* The bounds arbitrary_between is called with lie within -MaxBetween .. MaxBetween.
BetweenBounds == (-MaxBetween) .. MaxBetween

\* The values a caller may hand to a shrinker: valid values of each type.
GivenDates ==
    UNION {{from_ordinal_date_unchecked(y, 1),
            from_ordinal_date_unchecked(y, days_in_year(y))}
           : y \in {MIN_YEAR, -4, -1, 0, 1, 2019, 2020, MAX_YEAR}}

GivenDurations ==
    {d \in {Duration(sec, nano) :
                sec \in SecondsDraws,
                nano \in {-MAX_NANOSECOND, -2, -1, 0, 1, 2, MAX_NANOSECOND}} :
        ~ \/ (d.seconds > 0 /\ d.nanoseconds < 0)
          \/ (d.seconds < 0 /\ d.nanoseconds > 0)}

GivenOffsets ==
    {UtcOffset(0, 0, 0), UtcOffset(23, 59, 59), UtcOffset(-23, -59, -59),
     UtcOffset(0, -59, -59), UtcOffset(0, 59, 0), UtcOffset(0, 0, -1),
     UtcOffset(0, 0, 59), UtcOffset(-1, -1, -1), UtcOffset(5, 0, 30),
     UtcOffset(-2, 0, -2)}

GivenWeekdays == Range(Weekdays)

SerdeIdle ==
    /\ datetime' = DateTimeIdle
    /\ wire' = WireIdle
    /\ result' = ResultIdle

MacrosIdle ==
    /\ macroIn' = MacroIdle
    /\ macroOut' = TokensIdle

\* Every generated type but `type` returns to its idle value.
GeneratorsIdleBut(type) ==
    /\ IF type = "Date" THEN TRUE ELSE date' = DateIdle
    /\ IF type = "Duration" THEN TRUE ELSE duration' = DurationIdle
    /\ IF type = "UtcOffset" THEN TRUE ELSE offset' = OffsetIdle
    /\ IF type = "Weekday" THEN TRUE ELSE weekday' = WeekdayIdle
    /\ IF type = "arbitrary_between" THEN TRUE ELSE between' = BetweenIdle
    /\ IF type = "OffsetDateTime" THEN TRUE ELSE assumed' = AssumedIdle
    /\ IF type = "Duration::new" THEN TRUE ELSE normalized' = NormalizedIdle
    /\ IF type = "Duration::add" THEN TRUE ELSE added' = AddedIdle
    /\ IF type = "TryFrom" THEN TRUE ELSE converted' = ConvertedIdle
    /\ IF type = "none" THEN visited' = <<>> ELSE TRUE

Init ==
    /\ op = "init"
    /\ datetime = DateTimeIdle
    /\ wire = WireIdle
    /\ result = ResultIdle
    /\ macroIn = MacroIdle
    /\ macroOut = TokensIdle
    /\ visited = <<>>
    /\ between = BetweenIdle
    /\ assumed = AssumedIdle
    /\ normalized = NormalizedIdle
    /\ added = AddedIdle
    /\ converted = ConvertedIdle
    /\ \/ date \in GivenDates /\ duration = DurationIdle
          /\ offset = OffsetIdle /\ weekday = WeekdayIdle
       \/ date = DateIdle /\ duration \in GivenDurations
          /\ offset = OffsetIdle /\ weekday = WeekdayIdle
       \/ date = DateIdle /\ duration = DurationIdle
          /\ offset \in GivenOffsets /\ weekday = WeekdayIdle
       \/ date = DateIdle /\ duration = DurationIdle
          /\ offset = OffsetIdle /\ weekday \in GivenWeekdays

\* timestamp::serialize(&datetime, serializer)
Serialize ==
    /\ op = "init"
    /\ \E dt \in SampleDateTimes :
        /\ op' = "timestamp::serialize"
        /\ datetime' = Some(dt)
        /\ wire' = serialize(dt)
        /\ result' = ResultIdle
        /\ MacrosIdle
        /\ GeneratorsIdleBut("none")

\* timestamp::deserialize(deserializer)
Deserialize ==
    /\ op = "init"
    /\ \E w \in SampleWires :
        /\ op' = "timestamp::deserialize"
        /\ datetime' = DateTimeIdle
        /\ wire' = w
        /\ result' = deserialize(w)
        /\ MacrosIdle
        /\ GeneratorsIdleBut("none")

\* timestamp::option::serialize(&option, serializer)
OptionSerialize ==
    /\ op = "init"
    /\ \E option \in {None} \cup {Some(dt) : dt \in SampleDateTimes} :
        /\ op' = "timestamp::option::serialize"
        /\ datetime' = option
        /\ wire' = option_serialize(option)
        /\ result' = ResultIdle
        /\ MacrosIdle
        /\ GeneratorsIdleBut("none")

\* timestamp::option::deserialize(deserializer)
OptionDeserialize ==
    /\ op = "init"
    /\ \E w \in SampleWires :
        /\ op' = "timestamp::option::deserialize"
        /\ datetime' = DateTimeIdle
        /\ wire' = w
        /\ result' = option_deserialize(w)
        /\ MacrosIdle
        /\ GeneratorsIdleBut("none")

\* date!, datetime!, offset! and time!
ExpandMacro ==
    /\ op = "init"
    /\ \E name \in MacroNames, input \in MacroInputs :
        /\ op' = "macro"
        /\ macroIn' = [name |-> name, input |-> input]
        /\ macroOut' = impl_macros(name, input)
        /\ SerdeIdle
        /\ GeneratorsIdleBut("none")

DateArbitrary ==
    /\ op = "init"
    /\ \E yearDraw \in YearDraws, ordinalDraw \in U16Draws :
        /\ op' = "Date::arbitrary"
        /\ date' = Date_arbitrary(yearDraw, ordinalDraw)
        /\ visited' = <<>>
        /\ SerdeIdle /\ MacrosIdle /\ GeneratorsIdleBut("Date")

DateShrink ==
    /\ Len(visited) < MaxShrinks
    /\ \E d \in Range(Date_shrink(date)) :
        /\ op' = "Date::shrink"
        /\ date' = d
        /\ visited' = Append(visited, date)
        /\ SerdeIdle /\ MacrosIdle /\ GeneratorsIdleBut("Date")

DurationArbitrary ==
    /\ op = "init"
    /\ \E secondsDraw \in SecondsDraws, nanosecondsDraw \in NanosecondDraws,
       boolDraw \in BOOLEAN :
        /\ op' = "Duration::arbitrary"
        /\ duration' = Duration_arbitrary(secondsDraw, nanosecondsDraw, boolDraw)
        /\ visited' = <<>>
        /\ SerdeIdle /\ MacrosIdle /\ GeneratorsIdleBut("Duration")

DurationShrink ==
    /\ Len(visited) < MaxShrinks
    /\ \E d \in Range(Duration_shrink(duration)) :
        /\ op' = "Duration::shrink"
        /\ duration' = d
        /\ visited' = Append(visited, duration)
        /\ SerdeIdle /\ MacrosIdle /\ GeneratorsIdleBut("Duration")

UtcOffsetArbitrary ==
    /\ op = "init"
    /\ \E hoursDraw \in I8Draws, minutesDraw \in I8Draws, secondsDraw \in I8Draws,
       bool1 \in BOOLEAN, bool2 \in BOOLEAN :
        /\ op' = "UtcOffset::arbitrary"
        /\ offset' = UtcOffset_arbitrary(hoursDraw, minutesDraw, secondsDraw,
                                         bool1, bool2)
        /\ visited' = <<>>
        /\ SerdeIdle /\ MacrosIdle /\ GeneratorsIdleBut("UtcOffset")

UtcOffsetShrink ==
    /\ Len(visited) < MaxShrinks
    /\ \E o \in Range(UtcOffset_shrink(offset)) :
        /\ op' = "UtcOffset::shrink"
        /\ offset' = o
        /\ visited' = Append(visited, offset)
        /\ SerdeIdle /\ MacrosIdle /\ GeneratorsIdleBut("UtcOffset")

WeekdayArbitrary ==
    /\ op = "init"
    /\ \E draw \in U8Draws :
        /\ op' = "Weekday::arbitrary"
        /\ weekday' = Weekday_arbitrary(draw)
        /\ visited' = <<>>
        /\ SerdeIdle /\ MacrosIdle /\ GeneratorsIdleBut("Weekday")

\* A chain of Weekday shrinks is followed to its end.
WeekdayShrink ==
    \E w \in Range(Weekday_shrink(weekday)) :
        /\ op' = "Weekday::shrink"
        /\ weekday' = w
        /\ visited' = Append(visited, weekday)
        /\ SerdeIdle /\ MacrosIdle /\ GeneratorsIdleBut("Weekday")

\* arbitrary_between::<i8> called with min < max, as all its callers do.
ArbitraryBetween ==
    /\ op = "init"
    /\ \E min \in BetweenBounds, max \in BetweenBounds, draw \in I8All :
        /\ min < max
        /\ op' = "arbitrary_between"
        /\ between' = [min |-> min, max |-> max,
                       value |-> arbitrary_between(draw, min, max)]
        /\ visited' = <<>>
        /\ SerdeIdle /\ MacrosIdle /\ GeneratorsIdleBut("arbitrary_between")

OffsetDateTimeArbitrary ==
    /\ op = "init"
    /\ \E dateDraws \in EdgeYearDraws \X EdgeOrdinalDraws,
          timeDraws \in EdgeHourDraws \X EdgeU8Draws \X EdgeU8Draws
                        \X EdgeNanosecondDraws,
          offsetDraws \in EdgeOffsetHourDraws \X EdgeU8Draws \X EdgeU8Draws
                          \X BOOLEAN \X BOOLEAN :
        /\ op' = "OffsetDateTime::arbitrary"
        /\ assumed' = OffsetDateTime_arbitrary(dateDraws, timeDraws, offsetDraws)
        /\ visited' = <<>>
        /\ SerdeIdle /\ MacrosIdle /\ GeneratorsIdleBut("OffsetDateTime")

DurationNew ==
    /\ op = "init"
    /\ \E seconds \in SecondsDraws, nanoseconds \in NewNanosecondDraws :
        /\ op' = "Duration::new"
        /\ normalized' = [seconds |-> seconds, nanoseconds |-> nanoseconds,
                          result |-> Duration_new(seconds, nanoseconds)]
        /\ visited' = <<>>
        /\ SerdeIdle /\ MacrosIdle /\ GeneratorsIdleBut("Duration::new")

\* a.checked_add(b) and a + b on the same operands.
DurationAdd ==
    /\ op = "init"
    /\ \E a \in AddOperands, b \in AddOperands :
        /\ op' = "Duration::add"
        /\ added' = [a |-> a, b |-> b,
                     checked |-> Duration_checked_add(a, b),
                     sum |-> Duration_add(a, b)]
        /\ visited' = <<>>
        /\ SerdeIdle /\ MacrosIdle /\ GeneratorsIdleBut("Duration::add")

\* StdDuration::try_from(d) and, where it succeeds, Duration::try_from of
\* what it returned.
DurationTryToStd ==
    /\ op = "init"
    /\ \E d \in GivenDurations :
        LET std == StdDuration_try_from(d)
        IN  /\ op' = "StdDuration::try_from"
            /\ converted' = [duration |-> d, std |-> std,
                             back |-> IF std.tag = "Ok"
                                      THEN Duration_try_from(std.value)
                                      ELSE ResultIdle]
            /\ visited' = <<>>
            /\ SerdeIdle /\ MacrosIdle /\ GeneratorsIdleBut("TryFrom")

\* Duration::try_from(std) of a platform duration.
DurationTryFromStd ==
    /\ op = "init"
    /\ \E std \in GivenStdDurations :
        /\ op' = "Duration::try_from"
        /\ converted' = [duration |-> Duration(0, 0), std |-> Ok(std),
                         back |-> Duration_try_from(std)]
        /\ visited' = <<>>
        /\ SerdeIdle /\ MacrosIdle /\ GeneratorsIdleBut("TryFrom")

Next ==
    \/ Serialize
    \/ Deserialize
    \/ OptionSerialize
    \/ OptionDeserialize
    \/ ExpandMacro
    \/ DateArbitrary
    \/ DateShrink
    \/ DurationArbitrary
    \/ DurationShrink
    \/ UtcOffsetArbitrary
    \/ UtcOffsetShrink
    \/ WeekdayArbitrary
    \/ WeekdayShrink
    \/ ArbitraryBetween
    \/ OffsetDateTimeArbitrary
    \/ DurationNew
    \/ DurationAdd
    \/ DurationTryToStd
    \/ DurationTryFromStd

Spec == Init /\ [][Next]_vars

----------------------------------------------------------------------------
(* The properties.                                                         *)

Midnight == Time(0, 0, 0, 0)

\* datetime!("2019-01-01 0:00 UTC") of the module's doc-test.
DocDateTime == assume_utc(PrimitiveDateTime(from_ordinal_date_unchecked(2019, 1), Midnight))

DocTimestamp == I64Of(1546300800)

\* C1: timestamp::serialize writes the integer datetime.unix_timestamp(), the
\* whole seconds from the Unix epoch to the instant in UTC; the same instant
\* displayed in any other offset serializes to the same integer, and the
\* doc-test's 2019-01-01 0:00 UTC is written as 1_546_300_800.
C1_SerializeWritesUnixTimestamp ==
    op = "timestamp::serialize" =>
        LET dt == datetime[1]
        IN  /\ wire = WireI64(unix_timestamp(dt))
            /\ wire.int = I64(DaysSinceEpoch(dt.utc_datetime.date),
                              SecondOfDay(dt.utc_datetime.time))
            /\ \A o \in SampleOffsets : serialize(to_offset(dt, o)) = wire
            /\ (dt.utc_datetime = DocDateTime.utc_datetime => wire.int = DocTimestamp)

\* C1 witness: the doc-test's instant, displayed an hour east of UTC, is
\* written as 1_546_300_800.
C1_Witness ==
    /\ op = "timestamp::serialize"
    /\ datetime = Some(to_offset(DocDateTime, UtcOffset(1, 0, 0)))
    /\ wire = WireI64(DocTimestamp)

InstantRange(t) == ~I64Less(t, MIN_TIMESTAMP) /\ ~I64Less(MAX_TIMESTAMP, t)

\* C2: for an integer t within the representable instants, deserialize
\* returns Ok with a value whose offset is UTC and whose unix_timestamp() is
\* t; serializing the value gives t back, and every whole-second instant that
\* serializes to t is the instant deserialize returns.
C2_DeserializeRoundTrip ==
    (op = "timestamp::deserialize" /\ wire.kind = "i64" /\ InstantRange(wire.int)) =>
        /\ result.tag = "Ok"
        /\ result.value.offset = UTC
        /\ unix_timestamp(result.value) = wire.int
        /\ serialize(result.value) = wire
        /\ \A dt \in SampleDateTimes :
              (dt.utc_datetime.time.nanosecond = 0 /\ serialize(dt) = wire) =>
                  dt.utc_datetime = result.value.utc_datetime

\* C2 witness: the doc-test's 1_546_300_800 is read as 2019-01-01 0:00 UTC.
C2_Witness ==
    /\ op = "timestamp::deserialize"
    /\ wire = WireI64(DocTimestamp)
    /\ result = Ok(DocDateTime)

\* The days of the first and of the last supported date, from the epoch.
FirstDay == DaysSinceEpoch(from_ordinal_date_unchecked(MIN_YEAR, 1))
LastDay == DaysSinceEpoch(from_ordinal_date_unchecked(MAX_YEAR, days_in_year(MAX_YEAR)))

\* C3: deserialize returns an error, and no value, for every integer whose
\* instant lies in a year outside MIN_YEAR..MAX_YEAR, and for every wire value
\* the integer decoding rejects; the decoding error is returned as it is, and
\* the error of from_unix_timestamp as the deserializer's custom error.
C3_DeserializeErrors ==
    op = "timestamp::deserialize" =>
        /\ (wire.kind = "i64" /\ (wire.int.days < FirstDay \/ wire.int.days > LastDay)) =>
              result = Err(<<"custom", "ComponentRange">>)
        /\ wire.kind # "i64" => result = Err(<<"invalid type">>)
        /\ (deserialize_i64(wire).tag = "Err"
              \/ from_unix_timestamp(wire.int).tag = "Err") =>
              (result.tag = "Err" /\ result.value = <<>>)

\* C3 witness: the second after the last representable one is rejected.
C3_Witness ==
    /\ op = "timestamp::deserialize"
    /\ wire = WireI64(I64AddSeconds(MAX_TIMESTAMP, 1))
    /\ result.tag = "Err"

\* C4: option::serialize writes null for None and, for Some(dt), what the
\* plain serialize writes for dt; option::deserialize reads null as None and,
\* of any other wire value, returns Some(v) exactly when the plain
\* deserialize returns v and an error exactly when it returns an error.
C4_OptionAgreesWithPlain ==
    /\ op = "timestamp::option::serialize" =>
          IF datetime = None
          THEN wire = WireNull
          ELSE wire = serialize(datetime[1]) /\ wire.kind = "i64"
    /\ op = "timestamp::option::deserialize" =>
          IF wire.kind = "null"
          THEN result = Ok(None)
          ELSE LET plain == deserialize(wire)
               IN  /\ plain.tag = "Ok" <=> result.tag = "Ok"
                   /\ plain.tag = "Err" <=> result.tag = "Err"
                   /\ plain.tag = "Ok" => result.value = Some(plain.value)
                   /\ plain.tag = "Err" => result.error = plain.error

\* C4 witness: the optional adapter rejects an integer the plain one rejects.
C4_Witness ==
    /\ op = "timestamp::option::deserialize"
    /\ wire = WireI64(I64AddSeconds(MIN_TIMESTAMP, -1))
    /\ result.tag = "Err"
    /\ deserialize(wire).tag = "Err"

\* C5: a literal macro returns the value's tokens if and only if the string
\* literal was extracted, the parse succeeded, and the parse consumed the
\* whole string; otherwise it returns the compile error of the first of the
\* three checks that fails, which for characters left after a successful
\* parse is UnexpectedCharacter with the first character not consumed.  The
\* stream returned is either the value or one error, never both.
C5_MacroValueOrFirstError ==
    op = "macro" =>
        LET literal == macroIn.input.literal
            grammar == macroIn.input.grammar
        IN  /\ macroOut.kind \in {"value", "compile_error"}
            /\ macroOut.kind = "value" <=>
                  /\ literal.tag = "Ok"
                  /\ grammar.tag = "Ok"
                  /\ grammar.value = Len(literal.value)
            /\ macroOut.kind = "value" =>
                  /\ macroOut.value = [type |-> macroIn.name, text |-> literal.value]
                  /\ macroOut.error = Error("", "")
            /\ macroOut.kind = "compile_error" => macroOut.value.type = ""
            /\ literal.tag = "Err" =>
                  macroOut.error = literal.error
            /\ (literal.tag = "Ok" /\ grammar.tag = "Err") =>
                  macroOut.error = grammar.error
            /\ (literal.tag = "Ok" /\ grammar.tag = "Ok"
                    /\ grammar.value < Len(literal.value)) =>
                  macroOut.error = UnexpectedCharacter(literal.value[grammar.value + 1])

\* C5 witness: offset! is given "ab", of which the parser accepts "a".
C5_Witness ==
    /\ op = "macro"
    /\ macroIn = [name |-> "offset",
                  input |-> [literal |-> Ok(<<"a", "b">>), grammar |-> Ok(1)]]
    /\ macroOut = to_compile_error(UnexpectedCharacter("b"))

\* A Duration's fields never have strictly opposite signs, and its
\* nanoseconds are less than a second in magnitude.
DurationSignConsistent(d) ==
    /\ Abs(d.nanoseconds) <= 999999999
    /\ d.seconds > 0 => d.nanoseconds >= 0
    /\ d.seconds < 0 => d.nanoseconds <= 0

\* C6: every Duration that Duration::arbitrary returns, and every Duration
\* that shrink yields for a sign-consistent Duration, is sign-consistent with
\* nanoseconds of magnitude at most 999_999_999.
C6_DurationSignConsistency ==
    /\ DurationSignConsistent(duration)
    /\ \A d \in Range(Duration_shrink(duration)) : DurationSignConsistent(d)

\* C6 witness: the seconds of -5 s -999_999_999 ns shrink to their absolute
\* value, and the nanoseconds are made positive.
C6_Witness ==
    /\ op = "Duration::shrink"
    /\ Len(visited) = 1
    /\ visited[1] = Duration(-5, -999999999)
    /\ duration = Duration(5, 999999999)

\* A UtcOffset's fields are in range, and none is of the sign opposite to
\* the sign of a non-zero field before it.
UtcOffsetValid(o) ==
    /\ o.hours \in -23 .. 23
    /\ o.minutes \in -59 .. 59
    /\ o.seconds \in -59 .. 59
    /\ o.hours > 0 => (o.minutes >= 0 /\ o.seconds >= 0)
    /\ o.hours < 0 => (o.minutes <= 0 /\ o.seconds <= 0)
    /\ o.minutes > 0 => o.seconds >= 0
    /\ o.minutes < 0 => o.seconds <= 0

\* C7: every UtcOffset that UtcOffset::arbitrary returns, and every UtcOffset
\* that shrink yields for a valid UtcOffset, has its fields in range and
\* sign-consistent.
C7_UtcOffsetValid ==
    /\ UtcOffsetValid(offset)
    /\ \A o \in Range(UtcOffset_shrink(offset)) : UtcOffsetValid(o)

\* C7 witness: the minutes of -0:59:59 shrink to their absolute value, and
\* the seconds follow them.
C7_Witness ==
    /\ op = "UtcOffset::shrink"
    /\ Len(visited) = 1
    /\ visited[1] = UtcOffset(0, -59, -59)
    /\ offset = UtcOffset(0, 59, 59)

DateValid(d) ==
    /\ MIN_YEAR <= d.year /\ d.year <= MAX_YEAR
    /\ 1 <= d.ordinal /\ d.ordinal <= days_in_year(d.year)

\* C8: every Date that Date::arbitrary returns is valid, and Date::shrink
\* yields the shrunk (year, ordinal) pairs that form a valid date and no
\* others.
C8_DateValid ==
    /\ DateValid(date)
    /\ \A d \in Range(Date_shrink(date)) : DateValid(d)
    /\ Range(Date_shrink(date)) =
          {from_ordinal_date_unchecked(c[1], c[2]) :
              c \in {x \in Range(DateShrinkCandidates(date)) :
                        DateValid(from_ordinal_date_unchecked(x[1], x[2]))}}

\* C8 witness: day 366 of 2020 shrinks to day 366 of 1768, while the pairs
\* (1010, 366) and (2020, 0) that the tuple shrinker yields are skipped.
C8_Witness ==
    /\ op = "Date::shrink"
    /\ Len(visited) = 1
    /\ visited[1] = from_ordinal_date_unchecked(2020, 366)
    /\ date = from_ordinal_date_unchecked(1768, 366)
    /\ {<<1010, 366>>, <<2020, 0>>} \subseteq Range(DateShrinkCandidates(visited[1]))
    /\ from_ordinal_date_unchecked(1010, 366) \notin Range(Date_shrink(visited[1]))

\* C9: Monday has nothing to shrink to, every other weekday shrinks to the
\* one weekday before it, and a chain of shrinks visits no weekday twice, is
\* at most 6 steps long and can end at Monday only.
C9_WeekdayShrinkConverges ==
    /\ weekday = "Monday" => Weekday_shrink(weekday) = <<>>
    /\ weekday # "Monday" =>
          /\ Len(Weekday_shrink(weekday)) = 1
          /\ WeekdayIndex(Weekday_shrink(weekday)[1]) = WeekdayIndex(weekday) - 1
    /\ op = "Weekday::shrink" =>
          /\ weekday = previous(visited[Len(visited)])
          /\ weekday \notin Range(visited)
          /\ Len(visited) <= 6
          /\ \A i, j \in 1 .. Len(visited) : visited[i] = visited[j] => i = j

\* C9 witness: the chain from Sunday has reached Monday, in 6 steps.
C9_Witness ==
    /\ op = "Weekday::shrink"
    /\ weekday = "Monday"
    /\ visited = <<"Sunday", "Saturday", "Friday", "Thursday", "Wednesday", "Tuesday">>

\* C10: for each of the seven weekdays there is a draw of the underlying
\* generator on which Weekday::arbitrary returns it.
C10_WeekdayArbitraryCoversAll ==
    op = "init" =>
        \A w \in Range(Weekdays) : ENABLED (WeekdayArbitrary /\ weekday' = w)

\* C11: Duration::shrink yields only other instances: no element of the
\* shrink of a sign-consistent duration equals that duration after the sign
\* coercion.
C11_DurationShrinkYieldsOthers ==
    DurationSignConsistent(duration) =>
        \A x \in Range(Duration_shrink(duration)) : x # duration

\* C15: UtcOffset::shrink yields only other instances: no element of the
\* shrink of a valid offset equals that offset after the sign coercion.
C15_UtcOffsetShrinkYieldsOthers ==
    UtcOffsetValid(offset) =>
        \A x \in Range(UtcOffset_shrink(offset)) : x # offset

\* C17: for min < max, the values arbitrary_between(g, min, max) can return
\* over all draws of the underlying generator, the negative ones included, are
\* exactly min..=max: what it returns lies in the range, and every value of
\* the range, both endpoints included, is returned on some draw.
C17_ArbitraryBetweenCoversRange ==
    /\ op = "arbitrary_between" =>
           between.min <= between.value /\ between.value <= between.max
    /\ op = "init" =>
           \A min \in BetweenBounds, max \in BetweenBounds :
               min < max =>
                   \A r \in min .. max :
                       ENABLED (ArbitraryBetween
                                /\ between' = [min |-> min, max |-> max, value |-> r])

TimeValid(t) ==
    /\ 0 <= t.hour /\ t.hour <= 23
    /\ 0 <= t.minute /\ t.minute <= 59
    /\ 0 <= t.second /\ t.second <= 59
    /\ 0 <= t.nanosecond /\ t.nanosecond <= MAX_NANOSECOND

\* C16: OffsetDateTime::arbitrary always returns a valid instance: the value
\* p.assume_offset(o) it returns displays the offset o, its stored UTC date
\* and time are p minus o, and they form a valid PrimitiveDateTime whose year
\* lies in MIN_YEAR..=MAX_YEAR, also when p is within a day of either end of
\* the supported range.
C16_OffsetDateTimeArbitraryValid ==
    op = "OffsetDateTime::arbitrary" =>
        LET p == assumed.datetime
            r == assumed.result
        IN  /\ r.offset = assumed.offset
            /\ LocalTimestamp(r) = I64(DaysSinceEpoch(p.date), SecondOfDay(p.time))
            /\ r.utc_datetime.time.nanosecond = p.time.nanosecond
            /\ DateValid(r.utc_datetime.date)
            /\ TimeValid(r.utc_datetime.time)

\* The value seconds * 10^9 + nanoseconds as whole seconds rounded down and
\* the nanoseconds 0 .. 999_999_999 above them.
FloorForm(seconds, nanoseconds) ==
    [seconds |-> seconds + (nanoseconds \div NANOS_PER_SECOND),
     nanoseconds |-> nanoseconds % NANOS_PER_SECOND]

\* The seconds of the value seconds * 10^9 + nanoseconds, rounded towards zero.
WholeSeconds(seconds, nanoseconds) ==
    LET f == FloorForm(seconds, nanoseconds)
    IN  IF f.seconds < 0 /\ f.nanoseconds > 0 THEN f.seconds + 1 ELSE f.seconds

\* The value is one a Duration can hold.
Representable(seconds, nanoseconds) ==
    LET w == WholeSeconds(seconds, nanoseconds)
    IN  SECONDS_MIN <= w /\ w <= SECONDS_MAX

\* -1, 0 or 1 as the value seconds * 10^9 + nanoseconds is negative, zero or
\* positive.
NetSign(seconds, nanoseconds) ==
    LET f == FloorForm(seconds, nanoseconds)
    IN  IF f.seconds < 0 THEN -1
        ELSE IF f.seconds = 0 /\ f.nanoseconds = 0 THEN 0 ELSE 1

\* C14: Duration::new(seconds, nanoseconds), for an input whose total is
\* representable, returns the canonical form: the result denotes the same
\* total seconds * 10^9 + nanoseconds, its nanoseconds are below 10^9 in
\* absolute value, and its nanosecond field is zero or has the sign of the
\* net value, as has its seconds field.
C14_DurationNewNormalizes ==
    (op = "Duration::new"
     /\ Representable(normalized.seconds, normalized.nanoseconds)) =>
        LET r    == normalized.result
            sign == NetSign(normalized.seconds, normalized.nanoseconds)
        IN  /\ FloorForm(r.seconds, r.nanoseconds)
                   = FloorForm(normalized.seconds, normalized.nanoseconds)
            /\ Abs(r.nanoseconds) < NANOS_PER_SECOND
            /\ SECONDS_MIN <= r.seconds /\ r.seconds <= SECONDS_MAX
            /\ r.nanoseconds * sign >= 0
            /\ r.seconds * sign >= 0
            /\ (r.nanoseconds # 0 \/ r.seconds # 0) => sign # 0

\* C14 witness: Duration::new(1, -1) has borrowed a second and is 999_999_999
\* nanoseconds, positive.
C14_Witness ==
    /\ op = "Duration::new"
    /\ normalized.seconds = 1 /\ normalized.nanoseconds = -1
    /\ normalized.result = Duration(0, MAX_NANOSECOND)

\* C12: a.checked_add(b) returns no value exactly when the seconds of the
\* true sum, after the nanoseconds are carried into the seconds, lie outside
\* the signed 64-bit range; in every other case it returns the Duration that
\* a + b returns, which denotes the true sum (nothing has wrapped around) and
\* is sign-consistent.
C12_CheckedAddOverflow ==
    op = "Duration::add" =>
        LET seconds     == added.a.seconds + added.b.seconds
            nanoseconds == added.a.nanoseconds + added.b.nanoseconds
        IN  /\ added.checked = None <=> ~Representable(seconds, nanoseconds)
            /\ added.checked # None =>
                   LET r == added.checked[1]
                   IN  /\ added.sum = Returns(r)
                       /\ FloorForm(r.seconds, r.nanoseconds)
                              = FloorForm(seconds, nanoseconds)
                       /\ Abs(r.nanoseconds) < NANOS_PER_SECOND
                       /\ SECONDS_MIN <= r.seconds /\ r.seconds <= SECONDS_MAX
                       /\ DurationSignConsistent(r)

\* C12 witness: Duration::max_value() and one nanosecond have no checked sum.
C12_Witness ==
    /\ op = "Duration::add"
    /\ added.a = Duration_max_value
    /\ added.b = Duration(0, 1)
    /\ added.checked = None

\* C13: StdDuration::try_from(d) fails for every negative Duration d, a
\* negative one shorter than a second included, and succeeds for every
\* non-negative one; for a non-negative d, Duration::try_from of the platform
\* duration it returned is exactly d.
C13_StdDurationConversion ==
    op = "StdDuration::try_from" =>
        LET d == converted.duration
        IN  IF NetSign(d.seconds, d.nanoseconds) < 0
            THEN converted.std.tag = "Err"
            ELSE /\ converted.std.tag = "Ok"
                 /\ converted.back = Ok(d)

\* C13 witness: one nanosecond less than nothing has no platform duration.
C13_Witness ==
    /\ op = "StdDuration::try_from"
    /\ converted.duration = Duration(0, -1)
    /\ converted.std.tag = "Err"

=============================================================================
